---- MODULE Spec2Model ----
(***************************************************************************)
(* Model of FOAM_GcodeGenerator.generate_gcode (rhinoFOAM): the pass that  *)
(* decodes a printer profile, validates every point and segment of the     *)
(* input polylines against the bed envelope, and emits the G-code program  *)
(* (header, per-path motion, footer).                                      *)
(*                                                                         *)
(* Numbers.  Coordinates are integers (millimetres); extract_points'       *)
(* round(.,3) leaves them unchanged.  The points used lie on the axes at   *)
(* X = 44, Y = 117 and Z = 240 (the edges of an Euler brick: 125, 244 and  *)
(* 267 are its face diagonals), so every pairwise distance is an integer   *)
(* and Point3d.DistanceTo is exact.  DistanceTo is defined for such pairs  *)
(* only: a run that measured any other pair would stop with an error       *)
(* instead of going on with a rounded distance.  The extrusion multiplier  *)
(* and the running extrusion are held in units of 1e-5; the E field is     *)
(* what "{:.4f}" prints, in units of 1e-4.  Where the running extrusion    *)
(* lies halfway between two printed values the binary double decides the   *)
(* direction; the model takes either and records its choice in half_up.    *)
(* The parameters of the builders that are not integers (pressure, flow,   *)
(* retraction delay, cure pause, pen-down offset) are held in tenths.      *)
(* A G-code line is a record of its command token, its LETTER<number>      *)
(* fields (each a set holding the number, empty when the field is absent)  *)
(* and its trailing comment.                                               *)
(***************************************************************************)
EXTENDS Integers, Sequences, FiniteSets, TLC

\* ------------------------------------------------------------------ bounds
\* at most MaxPaths raw paths per run, holding at most MaxPts points in all
MaxPaths == 2
MaxPts == 4

\* ------------------------------------------------------- program constants
DefaultBedX == 300
DefaultBedY == 300
DefaultBedZ == 300
DefaultBedRadius == 150
DefaultClearance == 5
DefaultFeedRate == 1500
DefaultNozzleTemp == 210
DefaultBedTemp == 30
DefaultMultE5 == 20000
RapidFeed == 2000

\* --------------------------------------------------------------- geometry
Pt(x, y, z) == [X |-> x, Y |-> y, Z |-> z]

Points == {Pt(0, 0, 0), Pt(44, 0, 0), Pt(0, 0, 240)}

SeqsUpTo(S, n) == UNION {[1..k -> S] : k \in 0..n}

\* A raw input path: a Polyline, a PolylineCurve (whose TryGetPolyline may
\* fail) or any other object.
Polyline(pts) == [type |-> "Polyline", ok |-> TRUE, pts |-> pts]
PolylineCurve(ok, pts) == [type |-> "PolylineCurve", ok |-> ok, pts |-> pts]
OtherGeometry == [type |-> "Other", ok |-> FALSE, pts |-> <<>>]

\* The raw paths that hold at most n points.
RawPaths(n) ==
    {Polyline(s) : s \in SeqsUpTo(Points, n)}
    \cup {OtherGeometry}
    \cup (IF n >= 1 THEN {PolylineCurve(FALSE, <<Pt(0, 0, 0)>>)} ELSE {})
    \cup (IF n >= 2 THEN {PolylineCurve(TRUE, <<Pt(44, 0, 0), Pt(0, 0, 240)>>)}
          ELSE {})

\* The geometries of at most k raw paths that hold at most n points in all.
RECURSIVE GeometriesOf(_, _)
GeometriesOf(k, n) ==
    IF k = 0 THEN {<<>>}
    ELSE {<<>>} \cup UNION {{<<p>> \o g : g \in GeometriesOf(k - 1, n - Len(p.pts))} :
                            p \in RawPaths(n)}

Geometries == GeometriesOf(MaxPaths, MaxPts)

extract_points(pl) ==
    IF pl.type = "Polyline" THEN pl.pts
    ELSE IF pl.type = "PolylineCurve" /\ pl.ok THEN pl.pts
    ELSE <<>>

\* The largest r in lo..hi with r * r <= n, found by bisection.
RECURSIVE RootBetween(_, _, _)
RootBetween(n, lo, hi) ==
    IF lo = hi THEN lo
    ELSE LET mid == (lo + hi + 1) \div 2
         IN  IF mid <= n \div mid THEN RootBetween(n, mid, hi)
             ELSE RootBetween(n, lo, mid - 1)

\* The square root of a perfect square.  It has no value for any other
\* number: the root is then not an integer, and no integer stands for it.
Sqrt(n) == CHOOSE r \in {RootBetween(n, 0, n)} : r * r = n

\* Point3d.DistanceTo, for two points whose distance is a whole number of
\* millimetres; it has no value for any other pair of points.
DistanceTo(a, b) ==
    Sqrt((a.X - b.X) * (a.X - b.X) + (a.Y - b.Y) * (a.Y - b.Y)
          + (a.Z - b.Z) * (a.Z - b.Z))

\* ----------------------------------------------------------------- bounds
in_bounds_cart(x, y, z, bx, by, bz) ==
    LET reasons ==
            (IF x < 0 THEN <<"X<0">> ELSE <<>>)
            \o (IF y < 0 THEN <<"Y<0">> ELSE <<>>)
            \o (IF z < 0 THEN <<"Z<0">> ELSE <<>>)
            \o (IF x > bx THEN <<"X>BedX">> ELSE <<>>)
            \o (IF y > by THEN <<"Y>BedY">> ELSE <<>>)
            \o (IF z > bz THEN <<"Z>BedZ">> ELSE <<>>)
    IN  [ok |-> Len(reasons) = 0, reasons |-> reasons]

\* sqrt(x*x + y*y) > radius, decided on the squares.
RadiusExceeded(x, y, radius) == radius < 0 \/ x * x + y * y > radius * radius

in_bounds_delta(x, y, z, radius, bz) ==
    LET reasons ==
            (IF RadiusExceeded(x, y, radius) THEN <<"r>BedRadius">> ELSE <<>>)
            \o (IF z < 0 THEN <<"Z<0">> ELSE <<>>)
            \o (IF z > bz THEN <<"Z>BedZ">> ELSE <<>>)
    IN  [ok |-> Len(reasons) = 0, reasons |-> reasons]

\* ---------------------------------------------------------------- profile
\* dict.get(key, default)
Get(d, k, default) == IF k \in DOMAIN d THEN d[k] ELSE default

TheElem(S) == CHOOSE v \in S : TRUE

\* profile[idx] if len(profile) > idx and profile[idx] is not None else default
\* (a numeric list entry is a set: empty for None, else holding the number)
ListNum(lst, idx, default) ==
    IF Len(lst) > idx /\ lst[idx + 1] # {} THEN TheElem(lst[idx + 1]) ELSE default

\* The bed outline handed back for display.
NoBed == [shape |-> "None", a |-> 0, b |-> 0]
SuppliedBed == [shape |-> "Supplied", a |-> 0, b |-> 0]
Circle(radius) == [shape |-> "Circle", a |-> radius, b |-> 0]
Rectangle3d(bx, by) == [shape |-> "Rectangle", a |-> bx, b |-> by]

Modes == {"Hot", "Clay", "Pen"}
\* "CoreXY" stands for any printer type that is neither of the two variants.
PrinterTypes == {"Cartesian", "Delta", "CoreXY"}

NoParams == [k \in {} |-> 0]
CustomParams ==
    [NozzleTemp |-> 200, BedTemp |-> 60, ExtrusionMultiplier |-> 3334,
     FeedRate |-> 1200, ClearanceHeight |-> 2]
\* Line 214 takes the multiplier as it comes, whatever its sign.
ParamSets ==
    {NoParams, CustomParams, [FeedRate |-> 900, ExtrusionMultiplier |-> 15],
     [ExtrusionMultiplier |-> -15]}

\* A profile as the component receives it: an object (None, a dict, a list,
\* anything else) or a string that ast.literal_eval may or may not decode
\* to such an object.
Profile(enc, parses, kind, val) ==
    [enc |-> enc, parses |-> parses, kind |-> kind, val |-> val]
NoneProfile == Profile("object", TRUE, "None", <<>>)
BadString == Profile("string", FALSE, "None", <<>>)
OtherObject == Profile("string", TRUE, "other", <<>>)

\* The third entry of a profile list: a dict of parameters, or anything
\* else (a number, a string, None), which line 104 tells apart.
DictEntry(p) == [isdict |-> TRUE, val |-> p]
NonDictEntry == [isdict |-> FALSE, val |-> NoParams]

\* A list written by hand in the documented layout (line 101):
\* [Mode, PrinterType, Params, BedX, BedY, BedZ, BedRadius, BedShape]
ListOf(m, t, p, bed) ==
    <<m, t, DictEntry(p), {bed[1]}, {bed[2]}, {bed[3]}, {bed[4]}, SuppliedBed>>

StockBed == <<300, 300, 300, 150>>
SmallBed == <<100, 100, 200, 40>>

\* "x if x is not None else default" (an argument is a set: empty for None)
OrDefault(arg, default) == IF arg = {} THEN default ELSE TheElem(arg)

\* The tail of a builder's list: its else branch writes "Cartesian" whatever
\* printer type it was given.
BuilderTail(printer_type_, p, bx_, by_, bz_, radius_) ==
    IF printer_type_ = "Delta"
    THEN <<"Delta", DictEntry(p), {}, {}, {bz_}, {radius_}, Circle(radius_)>>
    ELSE <<"Cartesian", DictEntry(p), {bx_}, {by_}, {bz_}, {}, Rectangle3d(bx_, by_)>>

make_hot_profile(printer_type_, bx_, by_, bz_, radius_, nozzle, bed, mult, fr, clr) ==
    <<"Hot">>
    \o BuilderTail(printer_type_,
                   [NozzleTemp |-> OrDefault(nozzle, 210),
                    BedTemp |-> OrDefault(bed, 30),
                    ExtrusionMultiplier |-> OrDefault(mult, 20000),
                    FeedRate |-> OrDefault(fr, 1500),
                    ClearanceHeight |-> OrDefault(clr, 5)],
                   OrDefault(bx_, 300), OrDefault(by_, 300), OrDefault(bz_, 300),
                   OrDefault(radius_, 150))

make_clay_profile(printer_type_, bx_, by_, bz_, radius_, pressure, flow, retract, cure, fr, clr) ==
    <<"Clay">>
    \o BuilderTail(printer_type_,
                   [ExtrusionPressure |-> OrDefault(pressure, 40),
                    FlowRate |-> OrDefault(flow, 100),
                    RetractionDelay |-> OrDefault(retract, 5),
                    CurePause |-> OrDefault(cure, 0),
                    FeedRate |-> OrDefault(fr, 800),
                    ClearanceHeight |-> OrDefault(clr, 5)],
                   OrDefault(bx_, 300), OrDefault(by_, 300), OrDefault(bz_, 300),
                   OrDefault(radius_, 150))

make_pen_profile(printer_type_, bx_, by_, bz_, radius_, up, down, delay, fr) ==
    <<"Pen">>
    \o BuilderTail(printer_type_,
                   [PenUpHeight |-> OrDefault(up, 5),
                    PenDownOffset |-> OrDefault(down, 2),
                    PenDownDelay |-> OrDefault(delay, 100),
                    FeedRate |-> OrDefault(fr, 1000)],
                   OrDefault(bx_, 300), OrDefault(by_, 300), OrDefault(bz_, 300),
                   OrDefault(radius_, 150))

\* The lists the builders return, called with every argument left out or
\* with every argument given.
BuilderLists ==
    UNION {{make_hot_profile(t, {}, {}, {}, {}, {}, {}, {}, {}, {}),
            make_hot_profile(t, {100}, {100}, {200}, {40}, {200}, {60}, {3334},
                             {1200}, {2}),
            make_clay_profile(t, {}, {}, {}, {}, {}, {}, {}, {}, {}, {}),
            make_clay_profile(t, {100}, {100}, {200}, {40}, {35}, {120}, {10},
                              {20}, {1200}, {2}),
            make_pen_profile(t, {}, {}, {}, {}, {}, {}, {}, {}),
            make_pen_profile(t, {100}, {100}, {200}, {40}, {8}, {3}, {50},
                             {1200})} : t \in PrinterTypes}

BuilderProfiles == {Profile("object", TRUE, "list", l) : l \in BuilderLists}

\* The profiles of the geometry sweep: three lists of the builders and three
\* written by hand.  Validation reads the printer type and the bed only,
\* emission the mode and the parameters only: the six profiles hold every
\* (printer type, bed) pair, and every mode with and without parameters of
\* its own.
CoreProfiles ==
    {Profile("object", TRUE, "list", l) :
        l \in {make_hot_profile("Cartesian", {}, {}, {}, {}, {}, {}, {}, {}, {}),
               make_hot_profile("Delta", {100}, {100}, {200}, {40}, {200}, {60},
                                {3334}, {1200}, {2}),
               make_clay_profile("Delta", {}, {}, {}, {}, {}, {}, {}, {}, {}, {}),
               ListOf("Clay", "CoreXY", CustomParams, SmallBed),
               ListOf("Pen", "CoreXY", NoParams, StockBed),
               make_pen_profile("Cartesian", {100}, {100}, {200}, {40}, {8}, {3},
                                {50}, {1200})}}

Restrict(f, S) == [k \in S |-> f[k]]

FullDict(m, t, p, bed) ==
    [Mode |-> m, PrinterType |-> t, Params |-> p, BedX |-> bed[1],
     BedY |-> bed[2], BedZ |-> bed[3], BedRadius |-> bed[4],
     BedShape |-> SuppliedBed]

DictKeySets ==
    {{}, {"Mode"}, {"PrinterType", "BedRadius"}, {"Mode", "Params"},
     {"Mode", "PrinterType", "Params"},
     {"Mode", "PrinterType", "Params", "BedX", "BedY", "BedZ", "BedRadius"},
     {"Mode", "PrinterType", "Params", "BedX", "BedY", "BedZ", "BedRadius",
      "BedShape"}}

DictProfiles ==
    {Profile(enc, TRUE, "dict", Restrict(FullDict(m, t, p, SmallBed), ks)) :
        enc \in {"object", "string"}, m \in Modes, t \in PrinterTypes,
        p \in ParamSets, ks \in DictKeySets}

ListProfiles ==
    {Profile("object", TRUE, "list",
             SubSeq(ListOf(m, t, p, SmallBed), 1, n)) :
        m \in Modes, t \in PrinterTypes, p \in ParamSets, n \in 0..8}

\* Lists whose third entry is not a dict.
NonDictListProfiles ==
    {Profile("object", TRUE, "list",
             SubSeq([ListOf(m, t, NoParams, SmallBed) EXCEPT ![3] = NonDictEntry],
                    1, n)) :
        m \in Modes, t \in PrinterTypes, n \in {3, 8}}

Profiles ==
    {NoneProfile, BadString, OtherObject} \cup CoreProfiles
    \cup BuilderProfiles \cup DictProfiles \cup ListProfiles
    \cup NonDictListProfiles

\* An override header program: None, an empty list, or lines of the user.
Blank ==
    [cmd |-> "", X |-> {}, Y |-> {}, Z |-> {}, E |-> {}, F |-> {}, S |-> {},
     note |-> ""]
Comment(text) == [Blank EXCEPT !.cmd = ";", !.note = text]
UserLines ==
    <<[Blank EXCEPT !.cmd = "G21", !.note = "millimetres"],
      [Blank EXCEPT !.cmd = "G90", !.note = "absolute positioning"]>>
NoBaseCode == [given |-> FALSE, lines |-> <<>>]
BaseCodes ==
    {NoBaseCode, [given |-> TRUE, lines |-> <<>>],
     [given |-> TRUE, lines |-> UserLines]}

SampleGeometries ==
    {<<>>,
     <<Polyline(<<Pt(44, 0, 0)>>)>>,
     <<Polyline(<<Pt(0, 0, 0), Pt(44, 0, 0), Pt(0, 0, 240)>>),
       OtherGeometry,
       Polyline(<<Pt(0, 0, 240), Pt(0, 0, 0)>>)>>,
     \* steps of 117, 0, 0 and 125: odd distances, and a value printed twice
     <<Polyline(<<Pt(0, 0, 0), Pt(0, 117, 0), Pt(0, 117, 0)>>),
       Polyline(<<Pt(0, 117, 0), Pt(0, 117, 0), Pt(44, 0, 0)>>)>>}

\* ------------------------------------------------------------------ state
VARIABLES
    profile, geometry, base_code,          \* the three inputs
    pc, i,                                 \* position in generate_gcode
    mode, printer_type, params,            \* decoded configuration
    bedX, bedY, bedZ, bedRadius, Bed,
    status, violations, BadPts, BadSegs, WarnDots,
    preview_paths, gcode, extrusion, clearance, feedrate,
    half_up                                \* see FormatE4

inputs == <<profile, geometry, base_code>>
config == <<mode, printer_type, params, bedX, bedY, bedZ, bedRadius, Bed>>
diagnostics == <<status, violations, BadPts, BadSegs, WarnDots>>
motion == <<preview_paths, gcode, extrusion, clearance, feedrate, half_up>>
vars == <<inputs, pc, i, config, diagnostics, motion>>

StatusOK == <<"OK">>
StatusOut(n) == <<"Out of bounds: ", n, " point(s)">>

\* The locals as lines 73-78 and 121-124 set them.
Defaults ==
    /\ pc = "decode"
    /\ i = 1
    /\ mode = "Pen"
    /\ printer_type = "Cartesian"
    /\ bedX = DefaultBedX /\ bedY = DefaultBedY /\ bedZ = DefaultBedZ
    /\ bedRadius = DefaultBedRadius
    /\ params = NoParams
    /\ Bed = NoBed
    /\ status = StatusOK
    /\ violations = 0
    /\ BadPts = <<>> /\ BadSegs = <<>> /\ WarnDots = <<>>
    /\ preview_paths = <<>>
    /\ gcode = <<>>
    /\ extrusion = 0
    /\ clearance = 0
    /\ feedrate = 0
    /\ half_up = {}

\* Every geometry within the bounds, under each profile the builders make.
InitGeometrySweep ==
    /\ profile \in CoreProfiles
    /\ geometry \in Geometries
    /\ base_code = NoBaseCode

\* Every profile encoding and header override, over a few geometries.
InitConfigSweep ==
    /\ profile \in Profiles
    /\ geometry \in SampleGeometries
    /\ base_code \in BaseCodes

Init == (InitGeometrySweep \/ InitConfigSweep) /\ Defaults

\* ----------------------------------------------------------------- decode
\* Lines 66-70: a string is decoded; a string that does not decode is None.
Decoded(pr) == IF pr.enc = "string" /\ ~pr.parses THEN NoneProfile ELSE pr

\* Python truth of the decoded profile (line 80).
Truthy(pr) ==
    CASE pr.kind = "None" -> FALSE
      [] pr.kind = "dict" -> DOMAIN pr.val # {}
      [] pr.kind = "list" -> Len(pr.val) > 0
      [] OTHER -> TRUE

DecodeDict(d) ==
    LET t == Get(d, "PrinterType", "Cartesian")
        shape == Get(d, "BedShape", NoBed)
        r == IF t = "Delta" THEN Get(d, "BedRadius", DefaultBedRadius)
             ELSE DefaultBedRadius
        bx == IF t = "Delta" THEN DefaultBedX ELSE Get(d, "BedX", DefaultBedX)
        by == IF t = "Delta" THEN DefaultBedY ELSE Get(d, "BedY", DefaultBedY)
    IN  [mode |-> Get(d, "Mode", "Pen"),
         printer_type |-> t,
         params |-> Get(d, "Params", NoParams),
         bedX |-> bx, bedY |-> by,
         bedZ |-> Get(d, "BedZ", DefaultBedZ),
         bedRadius |-> r,
         Bed |-> IF shape # NoBed THEN shape
                 ELSE IF t = "Delta" THEN Circle(r) ELSE Rectangle3d(bx, by)]

DecodeList(l) ==
    LET t == IF Len(l) > 1 THEN l[2] ELSE "Cartesian"
        r == IF t = "Delta" THEN ListNum(l, 6, DefaultBedRadius)
             ELSE DefaultBedRadius
        bx == IF t = "Delta" THEN DefaultBedX ELSE ListNum(l, 3, DefaultBedX)
        by == IF t = "Delta" THEN DefaultBedY ELSE ListNum(l, 4, DefaultBedY)
    IN  [mode |-> IF Len(l) > 0 THEN l[1] ELSE "Pen",
         printer_type |-> t,
         params |-> IF Len(l) > 2 /\ l[3].isdict THEN l[3].val ELSE NoParams,
         bedX |-> bx, bedY |-> by,
         bedZ |-> ListNum(l, 5, DefaultBedZ),
         bedRadius |-> r,
         Bed |-> IF Len(l) > 7 THEN l[8]
                 ELSE IF t = "Delta" THEN Circle(r) ELSE Rectangle3d(bx, by)]

DefaultConfig ==
    [mode |-> "Pen", printer_type |-> "Cartesian", params |-> NoParams,
     bedX |-> DefaultBedX, bedY |-> DefaultBedY, bedZ |-> DefaultBedZ,
     bedRadius |-> DefaultBedRadius, Bed |-> NoBed]

DecodeProfile(pr) ==
    LET d == Decoded(pr)
    IN  IF ~Truthy(d) THEN DefaultConfig
        ELSE IF d.kind = "dict" THEN DecodeDict(d.val)
        ELSE IF d.kind = "list" THEN DecodeList(d.val)
        ELSE DefaultConfig

\* Lines 66-116.
Decode ==
    /\ pc = "decode"
    /\ LET c == DecodeProfile(profile)
       IN  /\ mode' = c.mode
           /\ printer_type' = c.printer_type
           /\ params' = c.params
           /\ bedX' = c.bedX /\ bedY' = c.bedY /\ bedZ' = c.bedZ
           /\ bedRadius' = c.bedRadius
           /\ Bed' = c.Bed
    /\ pc' = "validate"
    /\ UNCHANGED <<inputs, i, diagnostics, motion>>

\* ------------------------------------------------------------- validation
\* Lines 135-138: the bounds check of the active printer type.
CheckPoint(pt) ==
    IF printer_type = "Delta"
    THEN in_bounds_delta(pt.X, pt.Y, pt.Z, bedRadius, bedZ)
    ELSE in_bounds_cart(pt.X, pt.Y, pt.Z, bedX, bedY, bedZ)

TextDot(reasons, pt) == [text |-> reasons, pt |-> pt]
LineCurve(a, b) == <<a, b>>

\* Lines 133-142: the out-of-bounds points of one path, in order.
BadPtsOf(coords) == SelectSeq(coords, LAMBDA pt : ~CheckPoint(pt).ok)

WarnDotsOf(coords) ==
    LET bad == BadPtsOf(coords)
    IN  [k \in 1..Len(bad) |-> TextDot(CheckPoint(bad[k]).reasons, bad[k])]

\* A variant that records a segment only when both ends are out of bounds.
SegmentBadBothEnds(a, b) == ~CheckPoint(a).ok /\ ~CheckPoint(b).ok

\* Lines 146-159: whether segment a-b is recorded.  The midpoint
\* ((a.X+b.X)/2, ...) is tested against the bed with both sides doubled.
SegmentBad(a, b) ==
    IF printer_type = "Delta"
    THEN LET okA == in_bounds_delta(a.X, a.Y, a.Z, bedRadius, bedZ).ok
             okB == in_bounds_delta(b.X, b.Y, b.Z, bedRadius, bedZ).ok
             okM == in_bounds_delta(a.X + b.X, a.Y + b.Y, a.Z + b.Z,
                                    2 * bedRadius, 2 * bedZ).ok
         IN  ~(okA /\ okB /\ okM)
    ELSE LET okA == in_bounds_cart(a.X, a.Y, a.Z, bedX, bedY, bedZ).ok
             okB == in_bounds_cart(b.X, b.Y, b.Z, bedX, bedY, bedZ).ok
         IN  ~(okA /\ okB)

SegmentsOf(coords) ==
    [k \in 1..(Len(coords) - 1) |-> LineCurve(coords[k], coords[k + 1])]

BadSegsOf(coords) ==
    SelectSeq(SegmentsOf(coords), LAMBDA sg : SegmentBad(sg[1], sg[2]))

\* Lines 127-159, one pass of the loop over the input paths.
ValidatePath ==
    /\ pc = "validate"
    /\ i <= Len(geometry)
    /\ LET coords == extract_points(geometry[i])
       IN  /\ violations' = violations + Len(BadPtsOf(coords))
           /\ BadPts' = BadPts \o BadPtsOf(coords)
           /\ WarnDots' = WarnDots \o WarnDotsOf(coords)
           /\ BadSegs' = BadSegs \o BadSegsOf(coords)
    /\ i' = i + 1
    /\ UNCHANGED <<inputs, pc, config, status, motion>>

\* A variant that reports from the second violation on.
StatusOfSecond(n) == IF n > 1 THEN StatusOut(n) ELSE StatusOK

\* Lines 161-162.
StatusOf(n) == IF n > 0 THEN StatusOut(n) ELSE StatusOK

SetStatus ==
    /\ pc = "validate"
    /\ i > Len(geometry)
    /\ status' = StatusOf(violations)
    /\ pc' = "header"
    /\ UNCHANGED <<inputs, i, config, violations, BadPts, BadSegs, WarnDots,
                   motion>>

\* ----------------------------------------------------------------- header
\* Lines 178-183.
SynthHeader ==
    <<Comment("FOAM G-code Generator"),
      [Blank EXCEPT !.cmd = "G28", !.note = "Home all axes"]>>
    \o (IF mode = "Hot"
        THEN <<[Blank EXCEPT !.cmd = "M104",
                             !.S = {Get(params, "NozzleTemp", DefaultNozzleTemp)},
                             !.note = "set nozzle temp"],
               [Blank EXCEPT !.cmd = "M140",
                             !.S = {Get(params, "BedTemp", DefaultBedTemp)},
                             !.note = "set bed temp"]>>
        ELSE <<>>)
    \o <<[Blank EXCEPT !.cmd = "G92", !.E = {0}, !.note = "Reset extrusion"]>>

\* A variant that synthesizes the header after the override.
HeaderLinesBoth ==
    IF base_code.given THEN base_code.lines \o SynthHeader ELSE SynthHeader

\* Lines 175-183: "if base_code:" is false for None and for an empty list.
HeaderLines ==
    IF base_code.given /\ Len(base_code.lines) > 0
    THEN base_code.lines
    ELSE SynthHeader

\* Lines 174-190.
Header ==
    /\ pc = "header"
    /\ gcode' = HeaderLines
    /\ extrusion' = 0
    /\ clearance' = Get(params, "ClearanceHeight", DefaultClearance)
    /\ feedrate' = Get(params, "FeedRate", DefaultFeedRate)
    /\ i' = 1
    /\ pc' = "motion"
    /\ UNCHANGED <<inputs, config, diagnostics, preview_paths, half_up>>

\* ----------------------------------------------------------------- motion
\* "{:.4f}" of a value held in units of 1e-5, in units of 1e-4.  The print
\* is the nearest four-decimal number to the binary double.  A value that
\* ends in 5 lies halfway between two of them, and the double that stands
\* for it lies just above or just below: up holds the values whose double
\* lies above.
IsHalf(e5) == e5 % 10 = 5

FormatE4(e5, up) ==
    IF IsHalf(e5) THEN (e5 \div 10) + (IF e5 \in up THEN 1 ELSE 0)
    ELSE (e5 + 5) \div 10

\* Line 214: the extrusion added by the step from a to b.
StepExtrusion(a, b) ==
    DistanceTo(a, b) * Get(params, "ExtrusionMultiplier", DefaultMultE5)

\* A variant that restarts the extrusion at every path.
RECURSIVE ExtrusionAtReset(_, _, _)
ExtrusionAtReset(coords, j, e0) ==
    IF j <= 1 THEN 0
    ELSE IF mode = "Hot"
         THEN ExtrusionAtReset(coords, j - 1, e0)
              + StepExtrusion(coords[j - 1], coords[j])
         ELSE e0

\* The running extrusion after point j of a path entered with e0.
RECURSIVE ExtrusionAt(_, _, _)
ExtrusionAt(coords, j, e0) ==
    IF j <= 1 THEN e0
    ELSE IF mode = "Hot"
         THEN ExtrusionAt(coords, j - 1, e0) + StepExtrusion(coords[j - 1], coords[j])
         ELSE e0

G1(x, y, z, e, f, note) ==
    [Blank EXCEPT !.cmd = "G1", !.X = x, !.Y = y, !.Z = z, !.E = e, !.F = f,
                  !.note = note]

\* Lines 207-210.
StartLines(pt) ==
    <<Comment("Start path"),
      G1({pt.X}, {pt.Y}, {pt.Z + clearance}, {}, {RapidFeed}, "move above start"),
      G1({pt.X}, {pt.Y}, {pt.Z}, {}, {feedrate}, "descend to start")>>

\* A variant that writes the E field in every mode.
MoveLineAlwaysE(pt, e, up) ==
    G1({pt.X}, {pt.Y}, {pt.Z}, {FormatE4(e, up)}, {feedrate}, "")

\* Lines 212-217.
MoveLine(pt, e, up) ==
    IF mode = "Hot"
    THEN G1({pt.X}, {pt.Y}, {pt.Z}, {FormatE4(e, up)}, {feedrate}, "")
    ELSE G1({pt.X}, {pt.Y}, {pt.Z}, {}, {feedrate}, "")

\* Lines 219-221.
EndLines(pt) ==
    <<Comment("End path"),
      G1({}, {}, {pt.Z + clearance}, {}, {RapidFeed}, "lift tool")>>

\* A variant that closes a path only from its second point on ("elif").
PointLinesElif(coords, j, e0, up) ==
    IF j = 1 THEN StartLines(coords[j])
    ELSE <<MoveLine(coords[j], ExtrusionAt(coords, j, e0), up)>>
         \o (IF j = Len(coords) THEN EndLines(coords[j]) ELSE <<>>)

\* Lines 204-221: the lines of point j.
PointLines(coords, j, e0, up) ==
    (IF j = 1 THEN StartLines(coords[j])
     ELSE <<MoveLine(coords[j], ExtrusionAt(coords, j, e0), up)>>)
    \o (IF j = Len(coords) THEN EndLines(coords[j]) ELSE <<>>)

RECURSIVE PathLinesFrom(_, _, _, _)
PathLinesFrom(coords, j, e0, up) ==
    IF j > Len(coords) THEN <<>>
    ELSE PointLines(coords, j, e0, up) \o PathLinesFrom(coords, j + 1, e0, up)

\* A variant that walks the points of a path backwards.
PathLinesReversed(coords, e0, up) ==
    PathLinesFrom([k \in 1..Len(coords) |-> coords[Len(coords) + 1 - k]], 1, e0, up)

PathLines(coords, e0, up) == PathLinesFrom(coords, 1, e0, up)

\* The halves a path prints for the first time: the value it is entered with
\* was printed, if at all, by an earlier path.
NewHalves(coords, e0) ==
    {e \in {ExtrusionAt(coords, j, e0) : j \in 2..Len(coords)} :
        mode = "Hot" /\ IsHalf(e) /\ e # e0}

\* Lines 192-221, one pass of the loop over the input paths.
EmitPath ==
    /\ pc = "motion"
    /\ i <= Len(geometry)
    /\ LET coords == extract_points(geometry[i])
       IN  IF coords = <<>>
           THEN UNCHANGED <<preview_paths, gcode, extrusion, half_up>>
           ELSE /\ preview_paths' = Append(preview_paths, coords)
                /\ \E up \in SUBSET NewHalves(coords, extrusion) :
                      /\ half_up' = half_up \cup up
                      /\ gcode' = gcode \o PathLines(coords, extrusion, half_up \cup up)
                /\ extrusion' = ExtrusionAt(coords, Len(coords), extrusion)
    /\ i' = i + 1
    /\ UNCHANGED <<inputs, pc, config, diagnostics, clearance, feedrate>>

\* ----------------------------------------------------------------- footer
\* A variant that shuts the heaters down in every mode.
FooterLinesUngated ==
    <<Comment("End of FOAM print"),
      [Blank EXCEPT !.cmd = "M104", !.S = {0}, !.note = "turn off hotend"],
      [Blank EXCEPT !.cmd = "M140", !.S = {0}, !.note = "turn off bed"],
      [Blank EXCEPT !.cmd = "M107", !.note = "fans off"],
      [Blank EXCEPT !.cmd = "G28", !.X = {0}, !.note = "home X"],
      [Blank EXCEPT !.cmd = "M84", !.note = "disable motors"]>>

\* Lines 226-232.
FooterLines ==
    <<Comment("End of FOAM print")>>
    \o (IF mode = "Hot"
        THEN <<[Blank EXCEPT !.cmd = "M104", !.S = {0}, !.note = "turn off hotend"],
               [Blank EXCEPT !.cmd = "M140", !.S = {0}, !.note = "turn off bed"]>>
        ELSE <<>>)
    \o <<[Blank EXCEPT !.cmd = "M107", !.note = "fans off"],
         [Blank EXCEPT !.cmd = "G28", !.X = {0}, !.note = "home X"],
         [Blank EXCEPT !.cmd = "M84", !.note = "disable motors"]>>

\* Lines 226-234.
Footer ==
    /\ pc = "motion"
    /\ i > Len(geometry)
    /\ gcode' = gcode \o FooterLines
    /\ pc' = "done"
    /\ UNCHANGED <<inputs, i, config, diagnostics, preview_paths, extrusion,
                   clearance, feedrate, half_up>>

Next == Decode \/ ValidatePath \/ SetStatus \/ Header \/ EmitPath \/ Footer

Spec == Init /\ [][Next]_vars

\* ======================================================================
\* Properties
\* ======================================================================
Done == pc = "done"

\* The input paths that yield at least one point, in input order.
RECURSIVE NonEmptyPaths(_)
NonEmptyPaths(g) ==
    IF g = <<>> THEN <<>>
    ELSE (IF Head(g).type = "Other" \/ ~Head(g).ok \/ Head(g).pts = <<>>
          THEN <<>> ELSE <<Head(g).pts>>)
         \o NonEmptyPaths(Tail(g))

RECURSIVE Flatten(_)
Flatten(ss) == IF ss = <<>> THEN <<>> ELSE Head(ss) \o Flatten(Tail(ss))

IsG1(l) == l.cmd = "G1"
Position(l) == [X |-> l.X, Y |-> l.Y, Z |-> l.Z]

\* The positions a path is visited at, point by point: above and at its
\* first point, at every later point, and above its last point.
VisitsOf(path, lift) ==
    <<[X |-> {path[1].X}, Y |-> {path[1].Y}, Z |-> {path[1].Z + lift}]>>
    \o [j \in 1..Len(path) |->
            [X |-> {path[j].X}, Y |-> {path[j].Y}, Z |-> {path[j].Z}]]
    \o <<[X |-> {}, Y |-> {}, Z |-> {path[Len(path)].Z + lift}]>>

ExpectedVisits(g, lift) ==
    LET ps == NonEmptyPaths(g)
    IN  Flatten([k \in 1..Len(ps) |-> VisitsOf(ps[k], lift)])

EmittedVisits ==
    LET moves == SelectSeq(gcode, IsG1)
    IN  [k \in 1..Len(moves) |-> Position(moves[k])]

\* C1: the G1 moves of the finished program visit the paths in input order
\* and, within each path, the points in input order; paths without points
\* contribute nothing.
C1_Ordering == Done => EmittedVisits = ExpectedVisits(geometry, clearance)

\* Two paths with distinct points in each, so that both orders matter.
C1_Witness ==
    /\ Done
    /\ \E a, b \in 1..Len(geometry) :
          /\ a < b
          /\ Len(extract_points(geometry[a])) >= 2
          /\ extract_points(geometry[a])[1] # extract_points(geometry[a])[2]
          /\ extract_points(geometry[b]) # <<>>
          /\ extract_points(geometry[b])[1] # extract_points(geometry[a])[1]

\* The extrusion steps of a run: one per consecutive pair of points inside
\* a path, none between paths.
StepsOf(path) ==
    [j \in 1..(Len(path) - 1) |->
        DistanceTo(path[j], path[j + 1])
        * Get(params, "ExtrusionMultiplier", DefaultMultE5)]

AllSteps(g) ==
    LET ps == NonEmptyPaths(g)
    IN  Flatten([k \in 1..Len(ps) |-> StepsOf(ps[k])])

RECURSIVE SumTo(_, _)
SumTo(ss, k) == IF k = 0 THEN 0 ELSE SumTo(ss, k - 1) + ss[k]

EValues ==
    LET ls == SelectSeq(gcode, LAMBDA l : IsG1(l) /\ l.E # {})
    IN  [k \in 1..Len(ls) |-> TheElem(ls[k].E)]

Multiplier == Get(params, "ExtrusionMultiplier", DefaultMultE5)

\* The k-th E value is the sum of the first k point-to-point steps of the
\* whole run, printed with four decimals (either neighbour when the sum lies
\* halfway between two four-decimal numbers), and nothing is added between
\* one path and the next.
RunningSum ==
    LET steps == AllSteps(geometry)
    IN  /\ Len(EValues) = Len(steps)
        /\ \A k \in 1..Len(steps) :
              EValues[k] \in {FormatE4(SumTo(steps, k), {}),
                              FormatE4(SumTo(steps, k), {SumTo(steps, k)})}
        /\ extrusion = SumTo(steps, Len(steps))

NonDecreasing == \A k \in 1..(Len(EValues) - 1) : EValues[k] <= EValues[k + 1]

\* C2 as stated: in Hot mode the E values of the successive moves never
\* decrease, within a path and from one path to the next, and each is the
\* running sum of distance times multiplier over the whole run.
C2_Extrusion ==
    (Done /\ mode = "Hot") => (RunningSum /\ NonDecreasing)

\* C2 as amended: in Hot mode each E value is the running sum of distance
\* times multiplier over the whole run, for every multiplier; the E values
\* never decrease when the multiplier is not negative.
C2_ExtrusionSigned ==
    (Done /\ mode = "Hot") =>
        /\ RunningSum
        /\ Multiplier >= 0 => NonDecreasing

\* A Hot run whose second path extrudes on top of what the first one did.
C2_Witness ==
    /\ Done /\ mode = "Hot" /\ Multiplier >= 0
    /\ Len(NonEmptyPaths(geometry)) >= 2
    /\ Len(EValues) >= 2
    /\ EValues[1] > 0
    /\ EValues[Len(EValues)] > EValues[1]
    /\ Len(NonEmptyPaths(geometry)[2]) >= 2
    /\ Len(NonEmptyPaths(geometry)[1]) >= 2

\* The header override as the code tests it: present and not empty.
Override == base_code.given /\ base_code.lines # <<>>

HeaderLen == IF Override THEN Len(base_code.lines) ELSE Len(SynthHeader)

NoExtrusionMode == mode \in {"Clay", "Pen"}

\* C3 as stated: in Clay and Pen mode no line of the finished program,
\* header included, carries an E field.
C3_NoEAnywhere ==
    (Done /\ NoExtrusionMode) => \A k \in 1..Len(gcode) : gcode[k].E = {}

\* C3 as amended: in Clay and Pen mode no line after the header (no line of
\* the body, no line of the footer) carries an E field.
C3_NoEAfterHeader ==
    (Done /\ NoExtrusionMode) =>
        \A k \in (HeaderLen + 1)..Len(gcode) : gcode[k].E = {}

\* A Clay run with the synthesized header and a move between two points.
C3_Witness ==
    /\ Done /\ mode = "Clay" /\ ~Override
    /\ \E k \in 1..Len(gcode) : IsG1(gcode[k]) /\ gcode[k].note = ""
    /\ \E k \in 1..HeaderLen : gcode[k].cmd = "G92" /\ gcode[k].E = {0}

\* A point scaled by s lies in the bed scaled by s (s = 2 for midpoints).
PointValid(x, y, z, s) ==
    IF printer_type = "Delta"
    THEN /\ bedRadius >= 0
         /\ x * x + y * y <= (s * bedRadius) * (s * bedRadius)
         /\ 0 <= z /\ z <= s * bedZ
    ELSE /\ 0 <= x /\ x <= s * bedX
         /\ 0 <= y /\ y <= s * bedY
         /\ 0 <= z /\ z <= s * bedZ

SegmentValid(a, b) ==
    /\ PointValid(a.X, a.Y, a.Z, 1)
    /\ PointValid(b.X, b.Y, b.Z, 1)
    /\ (printer_type # "Delta" =>
            PointValid(a.X + b.X, a.Y + b.Y, a.Z + b.Z, 2))

AllSegments(g) ==
    LET ps == NonEmptyPaths(g)
    IN  Flatten([k \in 1..Len(ps) |->
                    [j \in 1..(Len(ps[k]) - 1) |-> <<ps[k][j], ps[k][j + 1]>>]])

Validated == pc \in {"header", "motion", "done"}

\* C4: once validation is over, the recorded segments are exactly the
\* consecutive pairs of points that are not valid, where a pair is valid iff
\* both ends are in bounds and, unless the printer is a Delta, the midpoint
\* is in bounds too.
C4_Segments ==
    Validated =>
        BadSegs = SelectSeq(AllSegments(geometry),
                            LAMBDA sg : ~SegmentValid(sg[1], sg[2]))

\* A run that records one segment and passes another.
C4_Witness ==
    /\ Validated
    /\ BadSegs # <<>>
    /\ Len(BadSegs) < Len(AllSegments(geometry))

OutOfBoundsPoints(g) ==
    SelectSeq(Flatten(NonEmptyPaths(g)),
              LAMBDA pt : ~PointValid(pt.X, pt.Y, pt.Z, 1))

\* C5: at the end of a run the status is "OK" exactly when no point is out
\* of bounds, and otherwise carries the number of out-of-bounds points, which
\* is also the length of BadPts and of WarnDots; the segments play no part.
C5_Status ==
    Done =>
        LET n == Len(OutOfBoundsPoints(geometry))
        IN  /\ (status = StatusOK) <=> (n = 0)
            /\ n > 0 => status = StatusOut(n)
            /\ violations = n
            /\ Len(BadPts) = n
            /\ Len(WarnDots) = n

\* A run with a single out-of-bounds point and no recorded segment.
C5_Witness ==
    /\ Done
    /\ violations = 1
    /\ BadSegs = <<>>
    /\ status = StatusOut(1)

ExpectedFooter(m) ==
    <<Comment("End of FOAM print")>>
    \o (IF m = "Hot"
        THEN <<[Blank EXCEPT !.cmd = "M104", !.S = {0}, !.note = "turn off hotend"],
               [Blank EXCEPT !.cmd = "M140", !.S = {0}, !.note = "turn off bed"]>>
        ELSE <<>>)
    \o <<[Blank EXCEPT !.cmd = "M107", !.note = "fans off"],
         [Blank EXCEPT !.cmd = "G28", !.X = {0}, !.note = "home X"],
         [Blank EXCEPT !.cmd = "M84", !.note = "disable motors"]>>

IsTempSet(l) == l.cmd \in {"M104", "M140"} /\ l.note \in {"set nozzle temp", "set bed temp"}
IsTempOff(l) == l.cmd \in {"M104", "M140"} /\ l.note \in {"turn off hotend", "turn off bed"}

IsSynthHeaderLine(l) ==
    \/ l = Comment("FOAM G-code Generator")
    \/ (l.cmd = "G28" /\ l.X = {})
    \/ IsTempSet(l)
    \/ l.cmd = "G92"

LastLines(n) == SubSeq(gcode, Len(gcode) - n + 1, Len(gcode))

\* C6: with a header override the finished program starts with the supplied
\* lines in their order and holds none of the synthesized header lines;
\* without one it starts with the banner and the home-all line and resets
\* the extrusion; in both cases it ends with the footer of the mode.
C6_Override ==
    Done =>
        /\ Len(gcode) >= Len(ExpectedFooter(mode))
        /\ LastLines(Len(ExpectedFooter(mode))) = ExpectedFooter(mode)
        /\ Override =>
              /\ SubSeq(gcode, 1, Len(base_code.lines)) = base_code.lines
              /\ \A k \in 1..Len(gcode) : ~IsSynthHeaderLine(gcode[k])
        /\ ~Override =>
              /\ gcode[1] = Comment("FOAM G-code Generator")
              /\ gcode[2].cmd = "G28" /\ gcode[2].X = {}
              /\ \E k \in 3..Len(gcode) : gcode[k].cmd = "G92" /\ gcode[k].E = {0}

\* A Hot run with an override and at least one path.
C6_Witness ==
    /\ Done /\ Override /\ mode = "Hot"
    /\ preview_paths # <<>>

HasTempSet == \E k \in 1..Len(gcode) : IsTempSet(gcode[k])
HasTempOff == \E k \in 1..Len(gcode) : IsTempOff(gcode[k])

\* C7 as stated: the temperature lines of the header and those of the
\* footer are in the finished program iff the mode is Hot.
C7_TempIffHot ==
    Done => /\ HasTempSet <=> (mode = "Hot")
            /\ HasTempOff <=> (mode = "Hot")

\* C7 as amended: the shutdown lines of the footer are in the finished
\* program iff the mode is Hot; the temperature lines of the header are in
\* it iff the mode is Hot and no header override is in use.
C7_TempGated ==
    Done => /\ HasTempSet <=> (mode = "Hot" /\ ~Override)
            /\ HasTempOff <=> (mode = "Hot")

\* A Hot run under an override: shutdown lines, no temperature-set lines.
C7_Witness == Done /\ mode = "Hot" /\ Override /\ HasTempOff /\ ~HasTempSet

ClayFeedRate == 800
PenFeedRate == 1000

DocumentedFeedRate(m) ==
    CASE m = "Hot" -> DefaultFeedRate
      [] m = "Clay" -> ClayFeedRate
      [] OTHER -> PenFeedRate

\* C8 as stated: without a FeedRate key the moves run at the documented feed
\* rate of the mode (1500, 800, 1000), and without a ClearanceHeight key the
\* tool is lifted by 5.
C8_DocumentedDefaults ==
    Done =>
        /\ "FeedRate" \notin DOMAIN params =>
              \A k \in 1..Len(gcode) :
                  (IsG1(gcode[k]) /\ gcode[k].note \in {"", "descend to start"})
                      => gcode[k].F = {DocumentedFeedRate(mode)}
        /\ "ClearanceHeight" \notin DOMAIN params => clearance = DefaultClearance

\* C9 as stated: a profile whose printer type is neither Cartesian nor
\* Delta is rejected: nothing is emitted for it and the run does not finish.
C9_AmbiguousRejected ==
    printer_type \notin {"Cartesian", "Delta"} => (gcode = <<>> /\ ~Done)

StripE(ls) == [k \in 1..Len(ls) |-> [ls[k] EXCEPT !.E = {}]]

ExpectedBlock(path) ==
    <<Comment("Start path"),
      G1({path[1].X}, {path[1].Y}, {path[1].Z + clearance}, {}, {RapidFeed},
         "move above start"),
      G1({path[1].X}, {path[1].Y}, {path[1].Z}, {}, {feedrate},
         "descend to start")>>
    \o [j \in 1..(Len(path) - 1) |->
            G1({path[j + 1].X}, {path[j + 1].Y}, {path[j + 1].Z}, {},
               {feedrate}, "")]
    \o <<Comment("End path"),
         G1({}, {}, {path[Len(path)].Z + clearance}, {}, {RapidFeed},
            "lift tool")>>

Body == SubSeq(gcode, HeaderLen + 1, Len(gcode) - Len(ExpectedFooter(mode)))

RECURSIVE SumLens(_)
SumLens(ps) == IF ps = <<>> THEN 0 ELSE Len(Head(ps)) + 4 + SumLens(Tail(ps))

\* C10: between header and footer the finished program holds, for every
\* path with at least one point (a single point included) and in input
\* order, its start marker, the rapid move above its first point, the
\* descent to it at the feed rate, one move per further point, its end
\* marker and the lift above its last point: n + 4 lines for n points.
C10_Blocks ==
    Done =>
        LET ps == NonEmptyPaths(geometry)
        IN  /\ StripE(Body) = Flatten([k \in 1..Len(ps) |-> ExpectedBlock(ps[k])])
            /\ Len(Body) = SumLens(ps)

\* A one-point path followed by a longer one.
C10_Witness ==
    /\ Done
    /\ Len(NonEmptyPaths(geometry)) = 2
    /\ Len(NonEmptyPaths(geometry)[1]) = 1
    /\ Len(NonEmptyPaths(geometry)[2]) >= 2

====
